---- MODULE Spec2Model ----
(***************************************************************************)
(* Model of the YelixCloud telemetry client (src/src/YelixCloud.ts; the    *)
(* earlier variant src/unnamed/part_000 has the same control flow without  *)
(* the debug log).                                                         *)
(*                                                                         *)
(* JavaScript is single-threaded: every action below is one synchronous    *)
(* run of code between two suspension points.  Continuations of promises   *)
(* that are already settled are kept in the FIFO microtask queue `jobs`.   *)
(* The awaits of initialize (fetch, response.json) resume whenever the     *)
(* promise the runtime returned settles: after an event-loop task when the *)
(* response comes over the network, but among the other microtasks when    *)
(* the runtime produces it itself (a data: URL, a URL it cannot parse).    *)
(* So these steps interleave freely with the jobs, as do the host calls    *)
(* (logRequest, invoking a returned bootstrap function), which may come    *)
(* from host tasks or from host promise continuations.                     *)
(*                                                                         *)
(* The host submits events 1..MaxEvents in that order.  A bootstrap        *)
(* function is an ordinary closure: the host may invoke it more than once  *)
(* (MaxReinvokes bounds the number of repeated invocations).  The host     *)
(* makes at most MaxHostCalls such calls altogether (logRequest calls and  *)
(* repeated invocations); the first invocation of a returned function is   *)
(* always possible.                                                        *)
(*                                                                         *)
(* A promise handed to a caller is named by a handle <<e, k>>: k = 0 for   *)
(* the promise logRequest(e) returned, k > 0 for the promise returned by   *)
(* the k-th invocation of the bootstrap function of event e.               *)
(***************************************************************************)
EXTENDS Integers, Sequences, FiniteSets, TLC

MaxEvents == 3

\* number of repeated invocations of bootstrap functions
MaxReinvokes == 1

\* logRequest calls and repeated invocations the host makes altogether
MaxHostCalls == 3

\* number of processQueue calls applied to one drawn state (DrainSpec)
MaxDrainCalls == 2

Events == 1..MaxEvents

Handles == Events \X (0..(1 + MaxReinvokes))

\* the promises returned by invocations of bootstrap functions
BootHandles == {h \in Handles : h[2] > 0}

NoHandle == <<0, 0>>

\* genuine instance identifiers the collector may answer with
Ids == {"id1"}

\* the value of data.data.instance_id when the body has no such field (null goes
\* the same way: it is assigned, and it is none of the state strings)
Undefined == "undefined"

NotInitialized == "Not-Initialized"
Initializing == "Initializing"
InitializeFailed == "Initialize-Failed"

Sentinels == {NotInitialized, Initializing, InitializeFailed}

\* Every value data.data.instance_id can have: line 114 assigns it unchecked,
\* also when it is one of the strings the class uses for its own states.
InstanceIdValues == Ids \cup {Undefined} \cup Sentinels

\* The schema argument of a bootstrap function: one JSON.stringify accepts,
\* or one it throws on (a cycle, a BigInt).
Schemas == {"plain", "cyclic"}

VARIABLES
    instanceId,         \* this.instanceId
    requestQueue,       \* this.requestQueue: the handles of the queued entries
    isProcessingQueue,  \* this.isProcessingQueue
    jobs,               \* microtask queue: continuations ready to run
    initPc,             \* where the initialize call that passed its guard is
    initOwner,          \* the handle of the invocation awaiting that call
    invocations,        \* per event: how often its bootstrap function was invoked
    boot,               \* per invocation: position of the bootstrap function
    inner,              \* per invocation: the promise it created and returned
    adopted,            \* invocations whose promise has subscribed to the inner one
    ret,                \* per event: what logRequest returned
    subAt,              \* per event: instanceId when it was submitted
    outcome,            \* per handle: state of the promise the caller holds
    settled,            \* handles in the order the caller's promise settled
    sent,               \* sendRequest calls in issue order, with instanceId
    initCalls,          \* number of fetch calls to /v1/instances/create
    initAnswer,         \* how the last initialize call that passed the guard ended
    drainCalls,         \* number of processQueue calls made so far
    nextEv              \* next event the host submits

vars == <<instanceId, requestQueue, isProcessingQueue, jobs, initPc, initOwner,
          invocations, boot, inner, adopted, ret, subAt, outcome, settled,
          sent, initCalls, initAnswer, drainCalls, nextEv>>

\* The part of the state the methods of the class read and write.
This ==
    [instanceId |-> instanceId, requestQueue |-> requestQueue,
     isProcessingQueue |-> isProcessingQueue, jobs |-> jobs, sent |-> sent,
     initCalls |-> initCalls, initPc |-> initPc, drainCalls |-> drainCalls,
     initAnswer |-> initAnswer]

\* A microtask: k is the continuation, h the handle it works for, res the
\* value it was resolved with (used by the promise callbacks only).
Job(k, h) == [k |-> k, h |-> h, res |-> "none"]

JobRes(k, h, res) == [k |-> k, h |-> h, res |-> res]

\* this.instanceId = v
SetInstanceId(t, v) ==
    [t EXCEPT !.instanceId = v]

\* The stubbed collector response of sendRequest.
Response == [ok |-> TRUE, statusText |-> "OK"]

\* What the await of sendRequest can deliver once the stub is replaced by the
\* fetch it stands for: a response that is ok or not, or an exception.
Raise == [ok |-> FALSE, statusText |-> "raise"]

LiveResponses == {Response, [ok |-> FALSE, statusText |-> "Error"], Raise}

\* sendRequest up to its await: the delivery call is issued (logged with the
\* current instanceId) and the rest of the function becomes a microtask.
sendRequest(t, h, k) ==
    [t EXCEPT !.sent = Append(@, [ev |-> h[1], at |-> t.instanceId, inv |-> h[2]]),
              !.jobs = Append(@, Job(k, h))]

\* sendRequest that lets the exception of its await escape.
sendRequestResultUncaught(response) ==
    IF response = Raise THEN "rejected"
    ELSE IF ~response.ok THEN "false" ELSE "true"

\* sendRequest after its await: what its promise is settled with, given what
\* the await delivered.  The catch turns an exception into false.
sendRequestResult(response) ==
    IF response = Raise THEN "false"
    ELSE IF ~response.ok THEN "false" ELSE "true"

\* A loop that takes the entries from the tail (pop instead of shift).
RECURSIVE DrainLoopPop(_)
DrainLoopPop(t) ==
    IF Len(t.requestQueue) > 0
    THEN DrainLoopPop(sendRequest(
            [t EXCEPT !.requestQueue = SubSeq(@, 1, Len(@) - 1)],
            t.requestQueue[Len(t.requestQueue)], "sendQueued"))
    ELSE t

\* A loop body that runs once: only the head entry is handled.
DrainLoopOnce(t) ==
    IF Len(t.requestQueue) > 0
    THEN sendRequest([t EXCEPT !.requestQueue = Tail(@)],
                     Head(t.requestQueue), "sendQueued")
    ELSE t

\* The while loop of processQueue: shift the head, call sendRequest on it
\* without awaiting, until the queue is empty.
RECURSIVE DrainLoop(_)
DrainLoop(t) ==
    IF Len(t.requestQueue) > 0
    THEN DrainLoop(sendRequest([t EXCEPT !.requestQueue = Tail(@)],
                               Head(t.requestQueue), "sendQueued"))
    ELSE t

\* processQueue that walks over the queue without removing its entries.
processQueueNoShift(t) ==
    IF t.isProcessingQueue \/ Len(t.requestQueue) = 0
    THEN [t EXCEPT !.drainCalls = @ + 1]
    ELSE [DrainLoop([t EXCEPT !.isProcessingQueue = TRUE, !.drainCalls = @ + 1])
            EXCEPT !.isProcessingQueue = FALSE, !.requestQueue = t.requestQueue]

\* processQueue without its re-entrancy guard.
processQueueUnguarded(t) ==
    [DrainLoop([t EXCEPT !.isProcessingQueue = TRUE, !.drainCalls = @ + 1])
        EXCEPT !.isProcessingQueue = FALSE]

processQueue(t) ==
    IF t.isProcessingQueue \/ Len(t.requestQueue) = 0
    THEN [t EXCEPT !.drainCalls = @ + 1]
    ELSE [DrainLoop([t EXCEPT !.isProcessingQueue = TRUE, !.drainCalls = @ + 1])
            EXCEPT !.isProcessingQueue = FALSE]

\* initialize up to its first await or its return.  The guard returns at
\* once.  Past the guard the state is set to Initializing; the body of the
\* request is then built inside the try, and when JSON.stringify throws on
\* the schema the catch sets Initialize-Failed and initialize returns without
\* having called fetch.
initialize(t, schema) ==
    IF t.instanceId # NotInitialized
    THEN t
    ELSE IF schema = "cyclic"
    THEN [SetInstanceId(SetInstanceId(t, Initializing), InitializeFailed)
            EXCEPT !.initAnswer = "schema"]
    ELSE [SetInstanceId(t, Initializing)
            EXCEPT !.initCalls = @ + 1, !.initPc = "fetch"]

Write(t) ==
    /\ instanceId' = t.instanceId
    /\ requestQueue' = t.requestQueue
    /\ isProcessingQueue' = t.isProcessingQueue
    /\ jobs' = t.jobs
    /\ sent' = t.sent
    /\ initCalls' = t.initCalls
    /\ initPc' = t.initPc
    /\ drainCalls' = t.drainCalls
    /\ initAnswer' = t.initAnswer

Init ==
    /\ instanceId = NotInitialized
    /\ requestQueue = <<>>
    /\ isProcessingQueue = FALSE
    /\ jobs = <<>>
    /\ initPc = "idle"
    /\ initOwner = NoHandle
    /\ invocations = [e \in Events |-> 0]
    /\ boot = [h \in BootHandles |-> "none"]
    /\ inner = [h \in BootHandles |-> "none"]
    /\ adopted = {}
    /\ ret = [e \in Events |-> "none"]
    /\ subAt = [e \in Events |-> "none"]
    /\ outcome = [h \in Handles |-> "none"]
    /\ settled = <<>>
    /\ sent = <<>>
    /\ initCalls = 0
    /\ initAnswer = "none"
    /\ drainCalls = 0
    /\ nextEv = 1

\* number of invocations that repeat an earlier one of the same function
Reinvokes == Cardinality({h \in BootHandles : 1 < h[2] /\ h[2] <= invocations[h[1]]})

\* logRequest calls and repeated invocations made so far
HostCalls == (nextEv - 1) + Reinvokes

\* logRequest that hands out a bootstrap function again after a failure.
logRequestRetryOnFailed ==
    /\ nextEv <= MaxEvents
    /\ HostCalls < MaxHostCalls
    /\ LET e == nextEv
           h == <<nextEv, 0>> IN
       /\ nextEv' = e + 1
       /\ subAt' = [subAt EXCEPT ![e] = instanceId]
       /\ IF instanceId \in {NotInitialized, InitializeFailed}
          THEN /\ ret' = [ret EXCEPT ![e] = "bootstrap"]
               /\ Write(This)
               /\ UNCHANGED outcome
          ELSE IF instanceId = Initializing
          THEN /\ ret' = [ret EXCEPT ![e] = "queued"]
               /\ outcome' = [outcome EXCEPT ![h] = "pending"]
               /\ Write([This EXCEPT !.requestQueue = Append(@, h)])
          ELSE /\ ret' = [ret EXCEPT ![e] = "direct"]
               /\ outcome' = [outcome EXCEPT ![h] = "pending"]
               /\ Write(sendRequest(This, h, "sendDirect"))
    /\ UNCHANGED <<initOwner, invocations, boot, inner, adopted, settled>>

\* logRequest whose Initializing branch also triggers a drain.
logRequestDrainOnQueue ==
    /\ nextEv <= MaxEvents
    /\ HostCalls < MaxHostCalls
    /\ LET e == nextEv
           h == <<nextEv, 0>> IN
       /\ nextEv' = e + 1
       /\ subAt' = [subAt EXCEPT ![e] = instanceId]
       /\ IF instanceId = NotInitialized
          THEN /\ ret' = [ret EXCEPT ![e] = "bootstrap"]
               /\ Write(This)
               /\ UNCHANGED outcome
          ELSE IF instanceId = Initializing
          THEN /\ ret' = [ret EXCEPT ![e] = "queued"]
               /\ outcome' = [outcome EXCEPT ![h] = "pending"]
               /\ Write(processQueue([This EXCEPT !.requestQueue = Append(@, h)]))
          ELSE /\ ret' = [ret EXCEPT ![e] = "direct"]
               /\ outcome' = [outcome EXCEPT ![h] = "pending"]
               /\ Write(sendRequest(This, h, "sendDirect"))
    /\ UNCHANGED <<initOwner, invocations, boot, inner, adopted, settled>>

\* logRequest without its last branch: whatever is not Not-Initialized queues.
logRequestAlwaysQueue ==
    /\ nextEv <= MaxEvents
    /\ HostCalls < MaxHostCalls
    /\ LET e == nextEv
           h == <<nextEv, 0>> IN
       /\ nextEv' = e + 1
       /\ subAt' = [subAt EXCEPT ![e] = instanceId]
       /\ IF instanceId = NotInitialized
          THEN /\ ret' = [ret EXCEPT ![e] = "bootstrap"]
               /\ Write(This)
               /\ UNCHANGED outcome
          ELSE /\ ret' = [ret EXCEPT ![e] = "queued"]
               /\ outcome' = [outcome EXCEPT ![h] = "pending"]
               /\ Write([This EXCEPT !.requestQueue = Append(@, h)])
    /\ UNCHANGED <<initOwner, invocations, boot, inner, adopted, settled>>

\* logRequest(request), for the next event of the host.  While the state is
\* Not-Initialized it returns a bootstrap function and touches nothing.
logRequest ==
    /\ nextEv <= MaxEvents
    /\ HostCalls < MaxHostCalls
    /\ LET e == nextEv
           h == <<nextEv, 0>> IN
       /\ nextEv' = e + 1
       /\ subAt' = [subAt EXCEPT ![e] = instanceId]
       /\ IF instanceId = NotInitialized
          THEN /\ ret' = [ret EXCEPT ![e] = "bootstrap"]
               /\ Write(This)
               /\ UNCHANGED outcome
          ELSE IF instanceId = Initializing
          THEN /\ ret' = [ret EXCEPT ![e] = "queued"]
               /\ outcome' = [outcome EXCEPT ![h] = "pending"]
               /\ Write([This EXCEPT !.requestQueue = Append(@, h)])
          ELSE /\ ret' = [ret EXCEPT ![e] = "direct"]
               /\ outcome' = [outcome EXCEPT ![h] = "pending"]
               /\ Write(sendRequest(This, h, "sendDirect"))
    /\ UNCHANGED <<initOwner, invocations, boot, inner, adopted, settled>>


\* The host invokes the function logRequest returned for e: it calls
\* initialize and awaits the promise initialize returns.  When initialize
\* returns without suspending, the rest of the function is a microtask.
InvokeBootstrap(e, schema) ==
    /\ ret[e] = "bootstrap"
    /\ invocations[e] > 0 => (Reinvokes < MaxReinvokes /\ HostCalls < MaxHostCalls)
    /\ LET h == <<e, invocations[e] + 1>>
           t == initialize(This, schema) IN
       /\ IF instanceId = NotInitialized /\ t.initPc = "fetch"
          THEN /\ Write(t)
               /\ initOwner' = h
          ELSE /\ Write([t EXCEPT !.jobs = Append(@, Job("bootstrap", h))])
               /\ UNCHANGED initOwner
       /\ invocations' = [invocations EXCEPT ![e] = @ + 1]
       /\ boot' = [boot EXCEPT ![h] = "awaitInit"]
       /\ outcome' = [outcome EXCEPT ![h] = "pending"]
    /\ UNCHANGED <<inner, adopted, ret, subAt, settled, nextEv>>

\* initialize returns: the await of the bootstrap function can resume.
InitializeReturns(t, how) ==
    [t EXCEPT !.initPc = "done",
              !.initAnswer = how,
              !.jobs = Append(@, Job("bootstrap", initOwner))]

\* The await of fetch in initialize resumes: with a response, ok or not, or
\* with an exception.
FetchReturns(r) ==
    /\ initPc = "fetch"
    /\ CASE r = "ok" -> Write([This EXCEPT !.initPc = "json"])
         [] r = "notok" ->
              Write(InitializeReturns(This, "notok"))
         [] r = "throw" ->
              Write(InitializeReturns(SetInstanceId(This, InitializeFailed), "throw"))
    /\ UNCHANGED <<initOwner, invocations, boot, inner, adopted, ret, subAt,
                   outcome, settled, nextEv>>

\* A success branch that stores the instance id and forgets the queue.
JsonReturnsNoDrain(b) ==
    /\ initPc = "json"
    /\ IF b = "throw"
       THEN Write(InitializeReturns(SetInstanceId(This, InitializeFailed), "badbody"))
       ELSE Write(InitializeReturns(SetInstanceId(This, b), b))
    /\ UNCHANGED <<initOwner, invocations, boot, inner, adopted, ret, subAt,
                   outcome, settled, nextEv>>

\* response.json() returns: b is the value of data.data.instance_id
\* (Undefined when the body has data but no instance_id), or "throw" when
\* the body is not JSON or has no data.
JsonReturns(b) ==
    /\ initPc = "json"
    /\ IF b = "throw"
       THEN Write(InitializeReturns(SetInstanceId(This, InitializeFailed), "badbody"))
       ELSE Write(InitializeReturns(processQueue(SetInstanceId(This, b)), b))
    /\ UNCHANGED <<initOwner, invocations, boot, inner, adopted, ret, subAt,
                   outcome, settled, nextEv>>

\* The bootstrap function resumes after `await this.initialize(...)`: it
\* creates the inner promise, pushes the request, calls processQueue and
\* returns the inner promise, which the promise the caller holds then has
\* to adopt (a further microtask).
BootstrapContinue ==
    /\ jobs # <<>>
    /\ Head(jobs).k = "bootstrap"
    /\ LET h == Head(jobs).h
           t == processQueue([This EXCEPT !.jobs = Tail(@),
                                          !.requestQueue = Append(@, h)]) IN
       /\ Write([t EXCEPT !.jobs = Append(@, Job("adopt", h))])
       /\ boot' = [boot EXCEPT ![h] = "done"]
       /\ inner' = [inner EXCEPT ![h] = "pending"]
    /\ UNCHANGED <<initOwner, invocations, adopted, ret, subAt, outcome, settled, nextEv>>

\* sendRequest resumes after its await and returns.  A direct call settles
\* the promise logRequest returned; a call from processQueue schedules the
\* .then callback (or the .catch callback when sendRequest rejects).
SendRequestResume(response) ==
    /\ jobs # <<>>
    /\ Head(jobs).k \in {"sendQueued", "sendDirect"}
    /\ LET h == Head(jobs).h
           result == sendRequestResult(response) IN
       IF Head(jobs).k = "sendDirect"
       THEN /\ Write([This EXCEPT !.jobs = Tail(@)])
            /\ outcome' = [outcome EXCEPT ![h] = result]
            /\ settled' = Append(settled, h)
       ELSE /\ Write([This EXCEPT !.jobs = Append(Tail(@), JobRes("then", h, result))])
            /\ UNCHANGED <<outcome, settled>>
    /\ UNCHANGED <<initOwner, invocations, boot, inner, adopted, ret, subAt, nextEv>>

\* .then((result) => queuedRequest.resolve(result))
\* .catch((error) => queuedRequest.reject(...))
\* For an entry logRequest queued, this settles the promise the caller
\* holds.  For an entry of a bootstrap function it settles the inner promise;
\* the caller's promise follows in a later microtask.
ThenCallback ==
    /\ jobs # <<>>
    /\ Head(jobs).k = "then"
    /\ LET h == Head(jobs).h
           result == Head(jobs).res IN
       IF h[2] = 0
       THEN /\ Write([This EXCEPT !.jobs = Tail(@)])
            /\ outcome' = [outcome EXCEPT ![h] = result]
            /\ settled' = Append(settled, h)
            /\ UNCHANGED inner
       ELSE /\ inner' = [inner EXCEPT ![h] = result]
            /\ IF h \in adopted
               THEN Write([This EXCEPT !.jobs = Append(Tail(@), JobRes("outer", h, result))])
               ELSE Write([This EXCEPT !.jobs = Tail(@)])
            /\ UNCHANGED <<outcome, settled>>
    /\ UNCHANGED <<initOwner, invocations, boot, adopted, ret, subAt, nextEv>>

\* The promise of the async bootstrap function was resolved with the inner
\* promise: it subscribes to it (inner.then(resolveOuter, rejectOuter)).
AdoptInner ==
    /\ jobs # <<>>
    /\ Head(jobs).k = "adopt"
    /\ LET h == Head(jobs).h IN
       /\ IF inner[h] = "pending"
          THEN Write([This EXCEPT !.jobs = Tail(@)])
          ELSE Write([This EXCEPT !.jobs = Append(Tail(@), JobRes("outer", h, inner[h]))])
       /\ adopted' = adopted \cup {h}
    /\ UNCHANGED <<initOwner, invocations, boot, inner, ret, subAt, outcome, settled, nextEv>>

\* The promise the caller of a bootstrap function holds takes the state of
\* the inner promise.
SettleOuter ==
    /\ jobs # <<>>
    /\ Head(jobs).k = "outer"
    /\ LET h == Head(jobs).h IN
       /\ Write([This EXCEPT !.jobs = Tail(@)])
       /\ outcome' = [outcome EXCEPT ![h] = Head(jobs).res]
       /\ settled' = Append(settled, h)
    /\ UNCHANGED <<initOwner, invocations, boot, inner, adopted, ret, subAt, nextEv>>

Next ==
    \/ logRequest
    \/ \E e \in Events, schema \in Schemas : InvokeBootstrap(e, schema)
    \/ \E r \in {"ok", "notok", "throw"} : FetchReturns(r)
    \/ \E b \in InstanceIdValues \cup {"throw"} : JsonReturns(b)
    \/ BootstrapContinue
    \/ SendRequestResume(Response)
    \/ ThenCallback
    \/ AdoptInner
    \/ SettleOuter

Spec == Init /\ [][Next]_vars

\* The first invocation of the bootstrap function of e.
FirstInvoke(e) ==
    /\ invocations[e] = 0
    /\ \E schema \in Schemas : InvokeBootstrap(e, schema)

\* Every returned bootstrap function is invoked, every network call returns,
\* and the microtask queue is run.
Fairness ==
    /\ \A e \in Events : WF_vars(FirstInvoke(e))
    /\ WF_vars(\E r \in {"ok", "notok", "throw"} : FetchReturns(r))
    /\ WF_vars(\E b \in InstanceIdValues \cup {"throw"} : JsonReturns(b))
    /\ WF_vars(BootstrapContinue)
    /\ WF_vars(SendRequestResume(Response))
    /\ WF_vars(ThenCallback)
    /\ WF_vars(AdoptInner)
    /\ WF_vars(SettleOuter)

FairSpec == Spec /\ Fairness

\* The same client with a transport whose calls can fail.
NextLive ==
    \/ logRequest
    \/ \E e \in Events, schema \in Schemas : InvokeBootstrap(e, schema)
    \/ \E r \in {"ok", "notok", "throw"} : FetchReturns(r)
    \/ \E b \in InstanceIdValues \cup {"throw"} : JsonReturns(b)
    \/ BootstrapContinue
    \/ \E response \in LiveResponses : SendRequestResume(response)
    \/ ThenCallback
    \/ AdoptInner
    \/ SettleOuter

LiveSpec == Init /\ [][NextLive]_vars

\* processQueue on its own: it is applied to every combination of state,
\* queue content and guard value, also those no run of the client reaches.
RECURSIVE Perms(_)
Perms(S) ==
    IF S = {} THEN {<<>>}
    ELSE UNION {{<<x>> \o q : q \in Perms(S \ {x})} : x \in S}

Queues == UNION {Perms({<<e, 0>> : e \in S}) : S \in SUBSET Events}

DrainInit ==
    /\ instanceId \in InstanceIdValues
    /\ requestQueue \in Queues
    /\ isProcessingQueue \in BOOLEAN
    /\ jobs = <<>>
    /\ initPc = "idle"
    /\ initOwner = NoHandle
    /\ invocations = [e \in Events |-> 0]
    /\ boot = [h \in BootHandles |-> "none"]
    /\ inner = [h \in BootHandles |-> "none"]
    /\ adopted = {}
    /\ ret = [e \in Events |-> "none"]
    /\ subAt = [e \in Events |-> "none"]
    /\ outcome = [h \in Handles |-> "none"]
    /\ settled = <<>>
    /\ sent = <<>>
    /\ initCalls = 0
    /\ initAnswer = "none"
    /\ drainCalls = 0
    /\ nextEv = 1

DrainCall ==
    /\ drainCalls < MaxDrainCalls
    /\ Write(processQueue(This))
    /\ UNCHANGED <<initOwner, invocations, boot, inner, adopted, ret, subAt,
                   outcome, settled, nextEv>>

DrainSpec == DrainInit /\ [][DrainCall]_vars

TypeOK ==
    /\ instanceId \in InstanceIdValues
    /\ isProcessingQueue \in BOOLEAN
    /\ initPc \in {"idle", "fetch", "json", "done"}
    /\ nextEv \in 1..(MaxEvents + 1)
    /\ \A e \in Events : invocations[e] <= 1 + MaxReinvokes

(***************************************************************************)
(* Helpers for the properties                                              *)
(***************************************************************************)
Range(q) == {q[i] : i \in 1..Len(q)}

Pos(q, x) == CHOOSE i \in 1..Len(q) : q[i] = x

Occurrences(q, x) == Cardinality({i \in 1..Len(q) : q[i] = x})

SentEvents == [i \in 1..Len(sent) |-> sent[i].ev]

SentHandles == [i \in 1..Len(sent) |-> <<sent[i].ev, sent[i].inv>>]

QueueEvents == [i \in 1..Len(requestQueue) |-> requestQueue[i][1]]

IsReady(s) == s \notin {NotInitialized, Initializing, InitializeFailed}

Invoked(e) == invocations[e] > 0

Settled(h) == outcome[h] \in {"true", "false", "rejected"}

\* The promise the caller of logRequest(e) ends up with: the one logRequest
\* returned, or the one the first invocation of the bootstrap function returned.
CallerPromise(e) == IF ret[e] = "bootstrap" THEN <<e, 1>> ELSE <<e, 0>>

\* An initialize call that made its init call has returned with answer a.
Answered(a) == initPc = "done" /\ initAnswer = a

\* This step is the return of an initialize call that made its init call.
InitReturnsNow == initPc \in {"fetch", "json"} /\ initPc' = "done"

(***************************************************************************)
(* C1 (single bootstrap): among the logRequest calls made while the state  *)
(* is Not-Initialized, exactly one returned a bootstrap function and every *)
(* other one returned an outcome promise.                                  *)
(***************************************************************************)
C1_SingleBootstrap ==
    LET batch == {e \in Events : subAt[e] = NotInitialized} IN
    batch # {} =>
        /\ Cardinality({e \in batch : ret[e] = "bootstrap"}) = 1
        /\ \A e \in batch : ret[e] \in {"bootstrap", "queued", "direct"}

(***************************************************************************)
(* C2 (network gating): no sendRequest call is issued while the state is   *)
(* Not-Initialized or Initializing.                                        *)
(***************************************************************************)
C2_NetworkGating ==
    \A i \in 1..Len(sent) : sent[i].at \notin {NotInitialized, Initializing}

(***************************************************************************)
(* C3 (order preservation): events submitted while the state is not Ready  *)
(* (the bootstrap caller's event included) are handed to sendRequest in    *)
(* the order they were submitted.                                          *)
(***************************************************************************)
C3_OrderPreserved ==
    \A i, j \in 1..Len(sent) :
        (/\ i < j
         /\ ~IsReady(subAt[sent[i].ev])
         /\ ~IsReady(subAt[sent[j].ev])) => sent[i].ev <= sent[j].ev

(***************************************************************************)
(* C4 (no loss): every submitted event's promise is eventually settled,    *)
(* and settled once, provided every bootstrap function is invoked and      *)
(* every network call returns (FairSpec).  A settled promise stays         *)
(* settled, so "eventually settled" for every submitted event is "from     *)
(* some point on every submitted event is settled".                        *)
(***************************************************************************)
C4_NoLoss ==
    /\ [](\A h \in Handles : Occurrences(settled, h) <= 1)
    /\ <>[](\A e \in Events : ret[e] # "none" => Settled(CallerPromise(e)))

(***************************************************************************)
(* C5 (no double initialize): at most one initialization call goes out,    *)
(* and an initialize call made when the state is not Not-Initialized       *)
(* changes neither the state nor the queue nor the number of init calls.   *)
(***************************************************************************)
C5_NoDoubleInitialize ==
    /\ [](initCalls <= 1)
    /\ [][\A e \in Events :
            (invocations'[e] = invocations[e] + 1 /\ instanceId # NotInitialized)
            => /\ instanceId' = instanceId
               /\ requestQueue' = requestQueue
               /\ initCalls' = initCalls
               /\ sent' = sent]_vars

\* The second half of C5 on its own: the guard of initialize.
InitializeGuardIsNoOp ==
    [][\A e \in Events :
            (invocations'[e] = invocations[e] + 1 /\ instanceId # NotInitialized)
            => /\ instanceId' = instanceId
               /\ requestQueue' = requestQueue
               /\ initCalls' = initCalls
               /\ initPc' = initPc
               /\ sent' = sent]_vars

(***************************************************************************)
(* C6 (failure by response): when the collector answers the init call with *)
(* a non-success response, the state becomes Initialize-Failed, no further *)
(* init call is made and the queue keeps its entries.                      *)
(***************************************************************************)
C6_FailedOnBadResponse ==
    /\ [][(InitReturnsNow /\ initAnswer' = "notok")
            => /\ instanceId' = InitializeFailed
               /\ requestQueue' = requestQueue]_vars
    /\ [](Answered("notok") => instanceId = InitializeFailed)
    /\ [][Answered("notok") => initCalls' = initCalls]_vars

(***************************************************************************)
(* C7 (failure by exception): when the init call raises, or the body of a  *)
(* success response is malformed, the state becomes Initialize-Failed, the *)
(* queue is not drained by initialize and no caller's promise is rejected. *)
(***************************************************************************)
C7_FailedOnException ==
    /\ [][(InitReturnsNow /\ initAnswer' \in {"throw", "badbody", Undefined})
            => /\ instanceId' = InitializeFailed
               /\ requestQueue' = requestQueue
               /\ sent' = sent]_vars
    /\ [](\A h \in Handles : outcome[h] # "rejected")

\* C7 restricted to the cases in which something is raised.
FailedWhenRaised ==
    [][(InitReturnsNow /\ initAnswer' \in {"throw", "badbody"})
        => /\ instanceId' = InitializeFailed
           /\ requestQueue' = requestQueue
           /\ sent' = sent]_vars

(***************************************************************************)
(* C8 (lifecycle): instanceId changes only from Not-Initialized to         *)
(* Initializing, from Initializing to a ready value and from Initializing  *)
(* to Initialize-Failed (a schema that cannot be serialised takes the      *)
(* first and the last of these inside one step); so it never returns to    *)
(* Not-Initialized, the ready and failed values are never left, and        *)
(* Not-Initialized is left at most once.                                   *)
(***************************************************************************)
C8_Lifecycle ==
    /\ [][instanceId' # instanceId =>
            \/ instanceId = NotInitialized /\ instanceId' = Initializing
            \/ instanceId = NotInitialized /\ instanceId' = InitializeFailed
                /\ initAnswer' = "schema"
            \/ instanceId = Initializing /\ IsReady(instanceId')
            \/ instanceId = Initializing /\ instanceId' = InitializeFailed]_vars
    /\ [][instanceId = NotInitialized /\ instanceId' # NotInitialized
            => initAnswer = "none"]_vars

(***************************************************************************)
(* C9 (queueing while uninitialized): a logRequest call made while the     *)
(* state is Not-Initialized appends its event to the queue at once, so     *)
(* that before any bootstrap function is invoked the queue holds the       *)
(* submitted events in arrival order; and two such events are settled in   *)
(* arrival order after a successful bootstrap.                             *)
(***************************************************************************)
C9_QueuedWhileUninitialized ==
    /\ (instanceId = NotInitialized /\ initAnswer = "none")
        => QueueEvents = [i \in 1..(nextEv - 1) |-> i]
    /\ \A e, f \in Events :
        (/\ e < f
         /\ subAt[e] = NotInitialized /\ subAt[f] = NotInitialized
         /\ initAnswer \in Ids
         /\ CallerPromise(f) \in Range(settled))
        => (/\ CallerPromise(e) \in Range(settled)
            /\ Pos(settled, CallerPromise(e)) < Pos(settled, CallerPromise(f)))

(***************************************************************************)
(* C10 (bootstrap success): once a bootstrap function has been invoked and *)
(* the collector has answered the init call with success and an instance   *)
(* id, the state is Ready with that id, and the promise the bootstrap      *)
(* function returned eventually resolves to true (FairSpec).               *)
(***************************************************************************)
C10_BootstrapSuccess ==
    /\ [](\A a \in Ids \cup Sentinels :
            Answered(a) => (IsReady(instanceId) /\ instanceId = a))
    /\ <>[](\A h \in BootHandles :
            (outcome[h] # "none" /\ initAnswer \in Ids \cup Sentinels)
                => outcome[h] = "true")

\* C10 for the answers that are none of the strings the class uses itself.
BootstrapSuccessGenuineId ==
    /\ [](\A a \in Ids : Answered(a) => instanceId = a)
    /\ <>[](\A h \in BootHandles :
            (outcome[h] # "none" /\ initAnswer \in Ids) => outcome[h] = "true")

(***************************************************************************)
(* C11 (direct delivery when ready): a logRequest call made while the      *)
(* state is a ready value calls sendRequest for its event at once and      *)
(* returns sendRequest's own promise; the queue, the drain guard and the   *)
(* state stay as they are, and the promise takes sendRequest's result.     *)
(***************************************************************************)
C11_DirectWhenReady ==
    /\ [][(nextEv' = nextEv + 1 /\ IsReady(instanceId))
            => /\ sent' = Append(sent, [ev |-> nextEv, at |-> instanceId, inv |-> 0])
               /\ ret'[nextEv] = "direct"
               /\ requestQueue' = requestQueue
               /\ isProcessingQueue' = isProcessingQueue
               /\ instanceId' = instanceId]_vars
    /\ [](\A e \in Events :
            (ret[e] = "direct" /\ Settled(<<e, 0>>)) => outcome[<<e, 0>>] = "true")

\* an event submitted in a ready state was sent directly and has resolved
C11_Witness ==
    \E e \in Events :
        /\ IsReady(subAt[e])
        /\ ret[e] = "direct"
        /\ outcome[<<e, 0>>] = "true"
        /\ \E i \in 1..Len(sent) : sent[i] = [ev |-> e, at |-> subAt[e], inv |-> 0]

(***************************************************************************)
(* C12 (delivery failure isolation), under a transport whose calls can     *)
(* fail (LiveSpec): sendRequest never rejects, so no promise is rejected;  *)
(* the step that reports a failed delivery through a promise changes only  *)
(* that promise: not the state, the queue, the calls issued, nor any other *)
(* promise, and the continuation of every other call already issued is     *)
(* still scheduled.                                                        *)
(***************************************************************************)
PendingJobHandles(q) == {q[i].h : i \in {j \in 1..Len(q) : q[j].k # "bootstrap"}}

C12_FailureIsolation ==
    /\ [](\A h \in Handles : outcome[h] # "rejected")
    /\ [][\A h \in Handles :
            (outcome[h] # "false" /\ outcome'[h] = "false")
            => /\ instanceId' = instanceId
               /\ requestQueue' = requestQueue
               /\ sent' = sent
               /\ \A g \in Handles \ {h} : outcome'[g] = outcome[g]
               /\ PendingJobHandles(jobs') = PendingJobHandles(jobs) \ {h}]_vars
    /\ [](\A i \in 1..Len(sent) :
            Settled(SentHandles[i]) \/ SentHandles[i] \in PendingJobHandles(jobs))

\* a delivery failed and the entry drained right behind it was delivered
C12_Witness ==
    \E i \in 1..Len(sent) :
        /\ i < Len(sent)
        /\ ret[sent[i].ev] = "queued" /\ ret[sent[i + 1].ev] = "queued"
        /\ outcome[SentHandles[i]] = "false"
        /\ outcome[SentHandles[i + 1]] = "true"
        /\ IsReady(instanceId)

(***************************************************************************)
(* C13 (idempotent drain), for processQueue applied to any state           *)
(* (DrainSpec): a call made while the guard is set, or while the queue is  *)
(* empty, removes no entry, issues no sendRequest call and leaves the      *)
(* guard as it is; and a call never leaves the guard set, so no second     *)
(* pass can start inside a pass.                                           *)
(***************************************************************************)
C13_IdempotentDrain ==
    [][drainCalls' = drainCalls + 1 =>
        /\ (isProcessingQueue \/ requestQueue = <<>>)
            => /\ requestQueue' = requestQueue
               /\ sent' = sent
               /\ jobs' = jobs
               /\ isProcessingQueue' = isProcessingQueue
        /\ isProcessingQueue' = isProcessingQueue]_vars

\* processQueue was called twice on a non-empty queue with the guard set
C13_Witness ==
    /\ drainCalls = 2
    /\ isProcessingQueue
    /\ Len(requestQueue) = 2
    /\ sent = <<>>

(***************************************************************************)
(* C14 (queueing while initializing): a logRequest call made while the     *)
(* state is Initializing appends its event at the tail of the queue and    *)
(* returns a pending promise; it makes no processQueue, sendRequest or     *)
(* init call and leaves the state, the guard and the microtasks alone.     *)
(***************************************************************************)
C14_QueueWhileInitializing ==
    [][(nextEv' = nextEv + 1 /\ instanceId = Initializing)
        => /\ requestQueue' = Append(requestQueue, <<nextEv, 0>>)
           /\ ret'[nextEv] = "queued"
           /\ outcome'[<<nextEv, 0>>] = "pending"
           /\ drainCalls' = drainCalls
           /\ sent' = sent
           /\ jobs' = jobs
           /\ initCalls' = initCalls
           /\ instanceId' = instanceId
           /\ isProcessingQueue' = isProcessingQueue]_vars

\* two events were queued one behind the other while the fetch was pending
C14_Witness ==
    /\ instanceId = Initializing
    /\ initPc = "fetch"
    /\ Len(requestQueue) = 2
    /\ requestQueue[1][1] < requestQueue[2][1]
    /\ \A i \in 1..2 :
        /\ ret[requestQueue[i][1]] = "queued"
        /\ outcome[requestQueue[i]] = "pending"
    /\ sent = <<>>

(***************************************************************************)
(* C15 (drain runs to completion): a processQueue call that passes its     *)
(* guard returns with the queue empty and the guard released, having       *)
(* called sendRequest for every entry that was in the queue; and the       *)
(* promise of every entry so drained is eventually settled with            *)
(* sendRequest's result (FairSpec; a settled promise stays settled).       *)
(***************************************************************************)
DrainedBy(q) ==
    /\ Len(sent') = Len(sent) + Len(q)
    /\ {SentHandles'[i] : i \in (Len(sent) + 1)..Len(sent')} = Range(q)

C15_DrainCompletes ==
    /\ [][(drainCalls' = drainCalls + 1 /\ sent' # sent)
            => /\ requestQueue' = <<>>
               /\ ~isProcessingQueue'
               /\ \/ DrainedBy(requestQueue)
                  \/ /\ jobs # <<>>
                     /\ Head(jobs).k = "bootstrap"
                     /\ DrainedBy(Append(requestQueue, Head(jobs).h))]_vars
    /\ <>[](\A i \in 1..Len(sent) :
            ret[sent[i].ev] # "direct" => outcome[SentHandles[i]] = "true")

\* one pass drained three entries and all their promises are settled
C15_Witness ==
    /\ drainCalls = 1
    /\ Len(sent) = 3
    /\ requestQueue = <<>>
    /\ \A i \in 1..3 : outcome[SentHandles[i]] = "true" /\ ret[sent[i].ev] # "direct"

(***************************************************************************)
(* C16 (non-serial dispatch): one drain pass removes all entries in a      *)
(* single synchronous step and calls sendRequest for them in queue order;  *)
(* no promise is settled during that step, so every call of the pass is    *)
(* issued before any earlier call of the pass has resolved.                *)
(***************************************************************************)
IssuedInOrder(q) ==
    SentHandles' = SentHandles \o q

C16_NonSerialDispatch ==
    [][(drainCalls' = drainCalls + 1 /\ sent' # sent)
        => /\ \/ IssuedInOrder(requestQueue)
              \/ /\ jobs # <<>>
                 /\ Head(jobs).k = "bootstrap"
                 /\ IssuedInOrder(Append(requestQueue, Head(jobs).h))
           /\ settled' = settled
           /\ outcome' = outcome
           /\ \A i \in (Len(sent) + 1)..Len(sent') :
                /\ outcome'[SentHandles'[i]] = "pending"
                /\ \E j \in 1..Len(jobs') : jobs'[j] = Job("sendQueued", SentHandles'[i])]_vars

\* a pass has issued two calls and neither of them has resolved yet
C16_Witness ==
    /\ Len(sent) >= 2
    /\ Len(jobs) >= 2
    /\ jobs[1].k = "sendQueued" /\ jobs[2].k = "sendQueued"
    /\ jobs[1].h = SentHandles[1] /\ jobs[2].h = SentHandles[2]
    /\ outcome[SentHandles[1]] = "pending" /\ outcome[SentHandles[2]] = "pending"
    /\ drainCalls = 1

\* With the stub, the promises logRequest itself queued settle in issue order.
StubSettlesInIssueOrder ==
    \A i, j \in 1..Len(settled) :
        (/\ i < j
         /\ ret[settled[i][1]] = "queued"
         /\ ret[settled[j][1]] = "queued")
        => Pos(SentHandles, settled[i]) < Pos(SentHandles, settled[j])

(***************************************************************************)
(* C17 (queue and state): between operations the queue is non-empty only   *)
(* while the state is Initializing or Initialize-Failed; in the            *)
(* Not-Initialized and ready states the queue is empty, and the drain      *)
(* guard is false.                                                         *)
(***************************************************************************)
C17_QueueOnlyWhileNotReady ==
    /\ requestQueue # <<>> => instanceId \in {Initializing, InitializeFailed}
    /\ (instanceId = NotInitialized \/ IsReady(instanceId))
        => (requestQueue = <<>> /\ ~isProcessingQueue)

\* entries queued during Initializing were drained when the state got ready
C17_Witness ==
    /\ IsReady(instanceId)
    /\ \E e \in Events : ret[e] = "queued" /\ e \in Range(SentEvents)
    /\ \E h \in BootHandles : boot[h] = "awaitInit"

(***************************************************************************)
(* C18 (bootstrap caller's event comes last): the event of a bootstrap     *)
(* function is not in the queue (nor sent) before initialize has returned  *)
(* inside the invoked function; and once initialization has succeeded,     *)
(* every event submitted while the state was Initializing has its          *)
(* sendRequest call before that of a bootstrap caller's event.             *)
(***************************************************************************)
C18_BootstrapEventLast ==
    /\ \A e \in Events :
        (ret[e] = "bootstrap" /\ \A h \in BootHandles : h[1] = e => boot[h] # "done")
            => (e \notin Range(QueueEvents) /\ e \notin Range(SentEvents))
    /\ initAnswer \in Ids =>
        \A b, q \in Events :
            (/\ ret[b] = "bootstrap"
             /\ subAt[q] = Initializing
             /\ b \in Range(SentEvents))
            => (/\ q \in Range(SentEvents)
                /\ Pos(SentEvents, q) < Pos(SentEvents, b))

\* The first half of C18 on its own.
BootstrapEventNotQueuedEarly ==
    \A e \in Events :
        (ret[e] = "bootstrap" /\ \A h \in BootHandles : h[1] = e => boot[h] # "done")
            => (e \notin Range(QueueEvents) /\ e \notin Range(SentEvents))

\* The second half of C18 for the bootstrap function whose initialize call
\* made the init call.
BootstrapOwnerEventLast ==
    initAnswer \in Ids =>
        \A q \in Events :
            (subAt[q] = Initializing /\ initOwner \in Range(SentHandles))
            => (/\ q \in Range(SentEvents)
                /\ Pos(SentEvents, q) < Pos(SentHandles, initOwner))

(***************************************************************************)
(* C19 (failed-state policy): a logRequest call made while the state is    *)
(* Initialize-Failed calls sendRequest for its event and returns that      *)
(* promise; it queues nothing, hands out no bootstrap function, makes no   *)
(* init call and leaves the queue and the state as they are.               *)
(***************************************************************************)
C19_DirectWhenFailed ==
    /\ [][(nextEv' = nextEv + 1 /\ instanceId = InitializeFailed)
            => /\ sent' = Append(sent, [ev |-> nextEv, at |-> InitializeFailed, inv |-> 0])
               /\ ret'[nextEv] = "direct"
               /\ requestQueue' = requestQueue
               /\ initCalls' = initCalls
               /\ drainCalls' = drainCalls
               /\ instanceId' = instanceId]_vars
    /\ [](\A e \in Events :
            (subAt[e] = InitializeFailed /\ Settled(<<e, 0>>)) => outcome[<<e, 0>>] = "true")
    /\ [](\A e \in Events : subAt[e] = InitializeFailed => ~Invoked(e))

\* an event was sent directly in the failed state while an entry queued
\* during Initializing was still in the queue
C19_Witness ==
    /\ instanceId = InitializeFailed
    /\ initAnswer = "throw"
    /\ requestQueue # <<>>
    /\ ret[Head(requestQueue)[1]] = "queued"
    /\ \E e \in Events :
        /\ subAt[e] = InitializeFailed
        /\ ret[e] = "direct"
        /\ sent # <<>> /\ sent[Len(sent)].ev = e

(***************************************************************************)
(* C20 (at most once): as long as no bootstrap function has been invoked   *)
(* twice, no event is handed to sendRequest twice, no promise is settled   *)
(* twice, no event is in the queue twice, and an event that has been       *)
(* removed from the queue (sent) is not in the queue again.                *)
(***************************************************************************)
C20_AtMostOnce ==
    (\A e \in Events : invocations[e] <= 1) =>
        \A e \in Events :
            /\ Occurrences(SentEvents, e) <= 1
            /\ \A h \in Handles : Occurrences(settled, h) <= 1
            /\ Cardinality({h \in Handles : h[1] = e /\ Settled(h)}) <= 1
            /\ Occurrences(QueueEvents, e) <= 1
            /\ ~(e \in Range(QueueEvents) /\ e \in Range(SentEvents))

\* two drain passes have run and every event sent so far is settled once
C20_Witness ==
    /\ \A e \in Events : invocations[e] <= 1
    /\ drainCalls >= 2
    /\ Len(sent) >= 3
    /\ \E i, j \in 1..Len(sent) : ret[sent[i].ev] = "queued" /\ ret[sent[j].ev] = "bootstrap"
    /\ \A i \in 1..Len(sent) : Occurrences(settled, SentHandles[i]) = 1
====
